---------------------------- MODULE Spec2Model ----------------------------
(***************************************************************************)
(* A model of swc-plugin-glob-import (src/src/lib.rs): the GlobImporter    *)
(* fold that rewrites `import x from "./*.js"` into one default import per *)
(* matched file plus one aggregating const declaration.                    *)
(*                                                                         *)
(* Strings are sequences of one-character strings, so that the character   *)
(* level operations of the code (regex escape, capture, sanitizing, path   *)
(* handling, the '*' count) are computed and not assumed.                  *)
(***************************************************************************)
EXTENDS Naturals, Sequences, FiniteSets

VARIABLES
    fs,          \* names of the entries of the importing file's directory
    input,       \* module.body as handed to fold_module
    pos,         \* index of the next item the flat_map closure receives
    out,         \* the Vec<ModuleItem> the flat_map/collect is building
    id_counter,  \* GlobImporter.id_counter
    allocated,   \* history: identifiers returned by next_variable_id this run
    pc,          \* "fold" | "done" | "panic" (main), "idle" (sanitizer spec)
    failure,     \* which panic unwound the fold ("" while none)
    run,         \* 1: first transform, 2: transform of the first run's output
    ident,       \* sanitizer specification: argument of the call
    sanitized,   \* sanitizer specification: value returned
    san_pc       \* sanitizer specification: "call" | "done" | "idle"

vars == <<fs, input, pos, out, id_counter, allocated, pc, failure, run,
          ident, sanitized, san_pc>>

(***************************************************************************)
(* Bounds of the model.                                                    *)
(***************************************************************************)
\* longest module body (number of top-level items) drawn in Init
MaxItems == 2
\* longest string over SanAlphabet handed to create_valid_property_name
MaxLen == 4

(***************************************************************************)
(* Characters.                                                             *)
(***************************************************************************)
Lower == {"a","b","c","d","e","f","g","h","i","j","k","l","m",
          "n","o","p","q","r","s","t","u","v","w","x","y","z"}
Upper == {"A","B","C","D","E","F","G","H","I","J","K","L","M",
          "N","O","P","Q","R","S","T","U","V","W","X","Y","Z"}
Digit == {"0","1","2","3","4","5","6","7","8","9"}

\* the complement of the class [^a-zA-Z0-9_] of line 83
WordChars == Lower \cup Upper \cup Digit \cup {"_"}

(***************************************************************************)
(* create_valid_property_name, lines 82-92.                                *)
(***************************************************************************)
\* str::replace(from, to) for a one-character `from` and `to` (line 87)
ReplaceChar(s, from, to) ==
    [i \in 1..Len(s) |-> IF s[i] = from THEN to ELSE s[i]]

\* re.replace_all(.., "") with re = [^a-zA-Z0-9_]+ : every maximal run of
\* characters outside the class is replaced by the empty string (lines 83, 87)
DeleteInvalid(s) == SelectSeq(s, LAMBDA c : c \in WordChars)

RECURSIVE TrimStart(_, _)
TrimStart(s, c) ==
    IF s # <<>> /\ Head(s) = c THEN TrimStart(Tail(s), c) ELSE s

RECURSIVE TrimEnd(_, _)
TrimEnd(s, c) ==
    IF s # <<>> /\ s[Len(s)] = c THEN TrimEnd(SubSeq(s, 1, Len(s) - 1), c) ELSE s

\* str::trim_matches(c) (line 88)
TrimMatches(s, c) == TrimEnd(TrimStart(s, c), c)

\* re2.replace_all(.., "_") with re2 = _+ : every maximal run of c becomes
\* one c (lines 84, 86, 89)
RECURSIVE CollapseRuns(_, _)
CollapseRuns(s, c) ==
    IF Len(s) < 2 THEN s
    ELSE IF s[1] = c /\ s[2] = c THEN CollapseRuns(Tail(s), c)
    ELSE <<s[1]>> \o CollapseRuns(Tail(s), c)

\* mutant: the trim_matches('_') call is forgotten
create_valid_property_name_NoTrim(id) ==
    CollapseRuns(DeleteInvalid(ReplaceChar(id, "-", "_")), "_")

\* mutant: '-' is deleted with the other invalid characters, not mapped to '_'
create_valid_property_name_NoDash(id) ==
    CollapseRuns(TrimMatches(DeleteInvalid(id), "_"), "_")

create_valid_property_name(id) ==
    CollapseRuns(TrimMatches(DeleteInvalid(ReplaceChar(id, "-", "_")), "_"), "_")


(***************************************************************************)
(* Small string helpers.                                                   *)
(***************************************************************************)
\* p occurs in s at index i (an empty p occurs at 1..Len(s)+1)
At(s, p, i) ==
    /\ i >= 1
    /\ i + Len(p) - 1 <= Len(s)
    /\ SubSeq(s, i, i + Len(p) - 1) = p

StartsWith(s, p) == At(s, p, 1)

Drop(s, n) == SubSeq(s, n + 1, Len(s))

\* str::matches(c).count() (line 46)
CountChar(s, c) == Cardinality({i \in 1..Len(s) : s[i] = c})

None == [ok |-> FALSE, val |-> <<>>]
Some(v) == [ok |-> TRUE, val |-> v]

\* printable ASCII used by the model, in code-point order (the byte order
\* std and glob compare file names by)
Ascii == <<"!", "$", "*", "-", ".", "/",
           "0","1","2","3","4","5","6","7","8","9", "?",
           "A","B","C","D","E","F","G","H","I","J","K","L","M",
           "N","O","P","Q","R","S","T","U","V","W","X","Y","Z", "_",
           "a","b","c","d","e","f","g","h","i","j","k","l","m",
           "n","o","p","q","r","s","t","u","v","w","x","y","z">>

Code(c) == CHOOSE i \in 1..Len(Ascii) : Ascii[i] = c

RECURSIVE StrLess(_, _)
StrLess(a, b) ==
    IF b = <<>> THEN FALSE
    ELSE IF a = <<>> THEN TRUE
    ELSE IF a[1] = b[1] THEN StrLess(Tail(a), Tail(b))
    ELSE Code(a[1]) < Code(b[1])

(***************************************************************************)
(* std::path, as far as lines 51-53 and 64-65 use it.                      *)
(***************************************************************************)
\* PathBuf::push / Path::join: an absolute argument replaces the path
Push(base, p) ==
    IF StartsWith(p, <<"/">>) THEN p
    ELSE IF base = <<>> \/ base[Len(base)] = "/" THEN base \o p
    ELSE base \o <<"/">> \o p

LastSlash(p) ==
    LET S == {i \in 1..Len(p) : p[i] = "/"}
    IN  IF S = {} THEN 0 ELSE CHOOSE i \in S : \A j \in S : j <= i

\* Path::parent of a path that ends in a normal file name
Parent(p) ==
    IF LastSlash(p) = 0 THEN <<>>
    ELSE IF LastSlash(p) = 1 THEN <<"/">>
    ELSE SubSeq(p, 1, LastSlash(p) - 1)

\* Path::with_file_name: pop the file name, push the new one (line 53)
WithFileName(p, name) == Push(Parent(p), name)

\* Components of a rooted path skip separators and "." components
RECURSIVE SkipSep(_)
SkipSep(s) ==
    IF StartsWith(s, <<"/">>) THEN SkipSep(Tail(s))
    ELSE IF s = <<".">> THEN <<>>
    ELSE IF StartsWith(s, <<".", "/">>) THEN SkipSep(Drop(s, 2))
    ELSE s

RECURSIVE NextComp(_)
NextComp(s) ==
    IF s = <<>> \/ s[1] = "/" THEN <<>> ELSE <<s[1]>> \o NextComp(Tail(s))

\* Path::components of a rooted path, the root left out; r is what is left
\* of the path, separators skipped
RECURSIVE ComponentsFrom(_)
ComponentsFrom(r) ==
    IF r = <<>> THEN <<>>
    ELSE <<NextComp(r)>> \o ComponentsFrom(SkipSep(Drop(r, Len(NextComp(r)))))

Components(s) == ComponentsFrom(SkipSep(s))

\* the rest of r once the components comps are consumed: the raw remainder
\* of the string, as Components::as_path returns it
RECURSIVE StripComps(_, _)
StripComps(r, comps) ==
    IF comps = <<>> THEN Some(r)
    ELSE IF r = <<>> \/ NextComp(r) # Head(comps) THEN None
    ELSE StripComps(SkipSep(Drop(r, Len(NextComp(r)))), Tail(comps))

\* Path::strip_prefix for rooted paths (line 65)
strip_prefix(path, base) ==
    IF StartsWith(path, <<"/">>) /\ StartsWith(base, <<"/">>)
    THEN StripComps(SkipSep(path), Components(base))
    ELSE None

(***************************************************************************)
(* The regex crate, as far as line 56 and line 61 use it.                  *)
(***************************************************************************)
\* regex_syntax::is_meta_character
RegexMeta == {"\\", ".", "+", "*", "?", "(", ")", "|", "[", "]", "{", "}",
              "^", "$", "#", "&", "-", "~"}

\* regex::escape: a backslash before every meta character
RECURSIVE escape(_)
escape(s) ==
    IF s = <<>> THEN <<>>
    ELSE (IF s[1] \in RegexMeta THEN <<"\\", s[1]>> ELSE <<s[1]>>)
         \o escape(Tail(s))

\* str::replace(r"\*", "(.*)"): left to right, non-overlapping
RECURSIVE ReplaceEscapedStar(_)
ReplaceEscapedStar(s) ==
    IF s = <<>> THEN <<>>
    ELSE IF StartsWith(s, <<"\\", "*">>)
         THEN <<"(", ".", "*", ")">> \o ReplaceEscapedStar(Drop(s, 2))
         ELSE <<s[1]>> \o ReplaceEscapedStar(Tail(s))

\* Regex::new on the strings line 56 builds: escaped literals and the group
RECURSIVE RegexNew(_)
RegexNew(s) ==
    IF s = <<>> THEN <<>>
    ELSE IF StartsWith(s, <<"(", ".", "*", ")">>)
         THEN <<[t |-> "group", c |-> ""]>> \o RegexNew(Drop(s, 4))
    ELSE IF s[1] = "\\" /\ Len(s) >= 2
         THEN <<[t |-> "lit", c |-> s[2]]>> \o RegexNew(Drop(s, 2))
    ELSE <<[t |-> "lit", c |-> s[1]]>> \o RegexNew(Tail(s))

GroupIndex(re) == CHOOSE i \in 1..Len(re) : re[i].t = "group"

Lits(re, a, b) == [i \in 1..(b - a + 1) |-> re[a + i - 1].c]

\* the literals before and after the group
RegexPrefix(re) == Lits(re, 1, GroupIndex(re) - 1)
RegexSuffix(re) == Lits(re, GroupIndex(re) + 1, Len(re))

MinOf(S) == CHOOSE i \in S : \A k \in S : i <= k
MaxOf(S) == CHOOSE i \in S : \A k \in S : k <= i

\* where the suffix can start once the prefix matched at i
MatchEnds(pre, post, hay, i) ==
    {j \in (i + Len(pre))..(Len(hay) + 1) : At(hay, post, j)}

\* where a match of prefix (.*) suffix can start
MatchStarts(pre, post, hay) ==
    {i \in 1..(Len(hay) + 1) :
        At(hay, pre, i) /\ MatchEnds(pre, post, hay, i) # {}}

\* group 1 of the match that starts at i0: the group is greedy
GreedyGroup(pre, post, hay, i0) ==
    SubSeq(hay, i0 + Len(pre), MaxOf(MatchEnds(pre, post, hay, i0)) - 1)

LeftmostMatch(pre, post, hay, starts) ==
    IF starts = {} THEN None
    ELSE Some(GreedyGroup(pre, post, hay, MinOf(starts)))

CapturesOf(pre, post, hay) ==
    LeftmostMatch(pre, post, hay, MatchStarts(pre, post, hay))

\* Regex::captures(hay) and group 1, for a regex of literals around one
\* (.*): an unanchored search, leftmost match first, the group greedy (the
\* model has no line terminator, the one character '.' refuses)
Captures(re, hay) == CapturesOf(RegexPrefix(re), RegexSuffix(re), hay)

(***************************************************************************)
(* The run's context and the file system the glob crate reads.             *)
(***************************************************************************)
\* process_transform: swc mounts the working directory under /cwd (line 199)
cwd == <<"/", "c", "w", "d">>

\* the Filename metadata of the file being transformed (lines 193-196)
file_name == <<"i", ".", "j", "s">>

\* self.cwd.join(self.file_name.parent().unwrap()) (line 64)
ImporterDir == Push(cwd, Parent(file_name))

IsPrefix(a, b) == Len(a) <= Len(b) /\ SubSeq(b, 1, Len(a)) = a

\* fs::metadata(path).is_dir(): the root, and the directories down to the
\* importing file's directory, whose entries (fs) are plain files
is_dir(path) == IsPrefix(Components(path), Components(ImporterDir))

\* fs::metadata(path).is_ok()
exists(path) ==
    \/ is_dir(path)
    \/ \E n \in fs : Components(path) = Components(ImporterDir) \o <<n>>

\* fs::read_dir(path): the entries' file names
read_dir(path) ==
    LET c == Components(path)
        d == Components(ImporterDir)
    IN  IF c = d THEN fs
        ELSE IF IsPrefix(c, d) THEN {d[Len(c) + 1]}
        ELSE {}

(***************************************************************************)
(* The glob crate, as far as line 57 uses it (MatchOptions::new(): no      *)
(* literal separator or leading dot required).  Sources of the model hold  *)
(* no '[', so Pattern::new never fails and builds no character class.      *)
(***************************************************************************)
\* glob::Pattern::new on one path component
PatternNew(comp) ==
    [i \in 1..Len(comp) |->
        IF comp[i] = "?" THEN [t |-> "AnyChar", c |-> ""]
        ELSE IF comp[i] = "*" THEN [t |-> "AnySequence", c |-> ""]
        ELSE [t |-> "Char", c |-> comp[i]]]

\* glob::Pattern::matches
RECURSIVE PatternMatches(_, _)
PatternMatches(toks, name) ==
    IF toks = <<>> THEN name = <<>>
    ELSE IF toks[1].t = "AnySequence"
         THEN \E k \in 0..Len(name) : PatternMatches(Tail(toks), Drop(name, k))
    ELSE IF name = <<>> THEN FALSE
    ELSE IF toks[1].t = "AnyChar" THEN PatternMatches(Tail(toks), Tail(name))
    ELSE toks[1].c = name[1] /\ PatternMatches(Tail(toks), Tail(name))

\* the entries of a directory in the order glob yields them: by file name
LeastName(S) == CHOOSE x \in S : \A y \in S \ {x} : StrLess(x, y)

RECURSIVE SortNames(_)
SortFrom(S, m) == <<m>> \o SortNames(S \ {m})
SortNames(S) == IF S = {} THEN <<>> ELSE SortFrom(S, LeastName(S))

\* str::split_terminator('/') of the pattern below its root
RECURSIVE SplitTerminator(_)
SplitTerminator(s) ==
    IF s = <<>> THEN <<>>
    ELSE LET c == NextComp(s)
         IN  <<c>> \o (IF Len(c) = Len(s) THEN <<>>
                       ELSE SplitTerminator(Drop(s, Len(c) + 1)))

IsLiteral(toks) == \A i \in 1..Len(toks) : toks[i].t = "Char"

RECURSIVE GlobWalk(_, _)

\* Paths::next on the sorted entries that matched the component: the last
\* component yields the entry, an inner one descends into a directory
RECURSIVE GlobEntries(_, _, _)
GlobEntries(path, names, rest) ==
    IF names = <<>> THEN <<>>
    ELSE (IF rest = <<>> THEN <<Push(path, Head(names))>>
          ELSE IF is_dir(Push(path, Head(names)))
               THEN GlobWalk(Push(path, Head(names)), rest)
          ELSE <<>>)
         \o GlobEntries(path, Tail(names), rest)

\* fill_todo on one component c, parsed as toks
GlobStep(path, c, toks, rest) ==
    IF IsLiteral(toks)
    THEN IF \/ c \in {<<".">>, <<".", ".">>} /\ is_dir(path)
            \/ c \notin {<<".">>, <<".", ".">>} /\ exists(Push(path, c))
         THEN GlobWalk(Push(path, c), rest)
         ELSE <<>>
    ELSE IF is_dir(path)
         THEN GlobEntries(path,
                          SortNames({n \in read_dir(path) :
                                        PatternMatches(toks, n)}),
                          rest)
         ELSE <<>>

\* glob's fill_todo and Paths::next: walk the pattern's components from path
GlobWalk(path, comps) ==
    IF comps = <<>> THEN <<path>>
    ELSE GlobStep(path, Head(comps), PatternNew(Head(comps)), Tail(comps))

\* glob::glob on a rooted pattern: the matched paths, in order
glob(pattern) == GlobWalk(<<"/">>, SplitTerminator(Tail(pattern)))

(***************************************************************************)
(* Module items (swc_core::ecma::ast), reduced to the fields the fold      *)
(* reads or writes.  An Ident is its sym.                                  *)
(***************************************************************************)
Specifier(kind, local) == [kind |-> kind, local |-> local]

\* ModuleItem::ModuleDecl(ModuleDecl::Import(ImportDecl {specifiers, src}))
ImportItem(specifiers, src) ==
    [type |-> "Import", specifiers |-> specifiers, src |-> src,
     name |-> <<>>, props |-> <<>>]

\* ModuleItem::Stmt(Stmt::Decl(Decl::Var(const name = { props })))
ConstItem(name, props) ==
    [type |-> "Const", specifiers |-> <<>>, src |-> <<>>,
     name |-> name, props |-> props]

\* any other top-level item, told apart by name
OtherItem(name) ==
    [type |-> "Stmt", specifiers |-> <<>>, src |-> <<>>,
     name |-> name, props |-> <<>>]

(***************************************************************************)
(* GlobImporter, lines 44-162.                                             *)
(***************************************************************************)
\* mutant: an import with two or more '*' is taken for a wildcard import too
is_valid_wildcard_import_AtLeastOne(decl) == CountChar(decl.src, "*") >= 1

is_valid_wildcard_import(decl) == CountChar(decl.src, "*") = 1

DigitChars == <<"0", "1", "2", "3", "4", "5", "6", "7", "8", "9">>

\* Display of a usize, as format!("{}", ..) prints it (line 160)
RECURSIVE Decimal(_)
Decimal(n) ==
    IF n < 10 THEN <<DigitChars[n + 1]>>
    ELSE Decimal(n \div 10) \o <<DigitChars[(n % 10) + 1]>>

ImportPrefix == <<"$", "_", "i", "m", "p", "o", "r", "t", "_">>

\* mutant: the counter is read but not advanced
next_variable_id_NoIncrement(counter) ==
    [counter |-> counter, ident |-> ImportPrefix \o Decimal(counter + 1)]

\* the new self.id_counter and the Ident returned
next_variable_id(counter) ==
    [counter |-> counter + 1, ident |-> ImportPrefix \o Decimal(counter + 1)]

\* lines 50-54
GlobPattern(src) == WithFileName(Push(cwd, file_name), src)

\* line 56
CaptureRegex(src) == RegexNew(ReplaceEscapedStar(escape(src)))

\* lines 70-74
ImportSrc(relative_path) ==
    IF StartsWith(relative_path, <<".">>) THEN relative_path
    ELSE <<".", "/">> \o relative_path

\* One call of the map closure (lines 59-78): the unwraps of lines 61 and
\* 65, then the WildcardImport, whose fields are evaluated in order
ExpandEntry(prev, caps, rel, id) ==
    IF ~prev.ok THEN prev
    ELSE IF ~caps.ok THEN [prev EXCEPT !.ok = FALSE, !.why = "captures"]
    ELSE IF ~rel.ok THEN [prev EXCEPT !.ok = FALSE, !.why = "strip_prefix"]
    ELSE [ok |-> TRUE, why |-> "",
          imports |-> Append(prev.imports,
                             [ident_import |-> id.ident,
                              ident_obj |-> create_valid_property_name(caps.val),
                              import_src |-> ImportSrc(rel.val)]),
          counter |-> id.counter]

ExpandPath(prev, re, path) ==
    ExpandEntry(prev, Captures(re, path), strip_prefix(path, ImporterDir),
                next_variable_id(prev.counter))

\* the first k paths mapped and collected
RECURSIVE ExpandPaths(_, _, _, _)
ExpandPaths(paths, k, re, counter) ==
    IF k = 0
    THEN [ok |-> TRUE, why |-> "", imports |-> <<>>, counter |-> counter]
    ELSE ExpandPath(ExpandPaths(paths, k - 1, re, counter), re, paths[k])

ExpandAll(paths, re, counter) == ExpandPaths(paths, Len(paths), re, counter)

\* The map over the glob's paths, collected (lines 49-80).  The result is
\* the Vec<WildcardImport> and the counter, or the unwrap that panicked;
\* then imports holds what was built before the panic.
expand_wildcard(src, counter) ==
    ExpandAll(glob(GlobPattern(src)), CaptureRegex(src), counter)

\* mutant: the properties are built from the matches in reverse order
UrlMap_Reversed(id, expanded) ==
    ConstItem(id,
        [i \in 1..Len(expanded) |->
            [key |-> expanded[Len(expanded) + 1 - i].ident_obj,
             value |-> expanded[Len(expanded) + 1 - i].ident_import]])

\* const <id> = { <ident_obj>: <ident_import>, ... } (lines 120-152)
UrlMap(id, expanded) ==
    ConstItem(id,
        [i \in 1..Len(expanded) |->
            [key |-> expanded[i].ident_obj,
             value |-> expanded[i].ident_import]])

\* one default import per WildcardImport (lines 103-118)
ImportItems(expanded) ==
    [i \in 1..Len(expanded) |->
        ImportItem(<<Specifier("Default", expanded[i].ident_import)>>,
                   expanded[i].import_src)]

Idents(expanded) == [i \in 1..Len(expanded) |-> expanded[i].ident_import]

\* lines 100-155, once expand_wildcard returned or panicked; ids are the
\* identifiers allocated on the way
SplitResult(id, expanded) ==
    [ok |-> expanded.ok, why |-> expanded.why,
     items |-> IF expanded.ok
               THEN ImportItems(expanded.imports)
                    \o <<UrlMap(id, expanded.imports)>>
               ELSE <<>>,
     counter |-> expanded.counter, ids |-> Idents(expanded.imports)]

\* The items that replace the import, and the counter; or the panic
\* (lines 94-156).
split_wildcard_import(decl, counter) ==
    IF decl.specifiers = <<>>
    THEN [ok |-> FALSE, why |-> "TODO3", items |-> <<>>,
          counter |-> counter, ids |-> <<>>]
    ELSE IF decl.specifiers[1].kind # "Default"
    THEN [ok |-> FALSE, why |-> "TODO2", items |-> <<>>,
          counter |-> counter, ids |-> <<>>]
    ELSE SplitResult(decl.specifiers[1].local,
                     expand_wildcard(decl.src, counter))

(***************************************************************************)
(* Inputs: the directory entries and the module items Init draws from.     *)
(***************************************************************************)
FileNames ==
    { <<"a", ".", "j", "s">>,
      <<"b", "-", "c", ".", "j", "s">>,
      <<"b", "_", "c", ".", "j", "s">>,
      <<".", "h", ".", "j", "s">>,
      <<"x", "*", ".", "j", "s">> }

Foo == <<"f", "o", "o">>
Bar == <<"b", "a", "r">>

SrcPlain == <<".", "/", "a", ".", "j", "s">>
SrcStar == <<".", "/", "*", ".", "j", "s">>
SrcTwoStars == <<".", "/", "*", "-", "*", ".", "j", "s">>
SrcQuestion == <<".", "/", "?", "*", ".", "j", "s">>
SrcSome == <<".", "/", "b", "*", ".", "j", "s">>

Items ==
    { OtherItem(Foo),
      ImportItem(<<Specifier("Default", Bar)>>, SrcPlain),
      ImportItem(<<Specifier("Default", Foo)>>, SrcStar),
      ImportItem(<<Specifier("Default", Bar)>>, SrcTwoStars),
      ImportItem(<<Specifier("Named", Foo)>>, SrcTwoStars),
      ImportItem(<<Specifier("Default", Foo)>>, SrcQuestion),
      ImportItem(<<Specifier("Default", Bar)>>, SrcSome),
      ImportItem(<<Specifier("Named", Foo)>>, SrcStar),
      ImportItem(<<Specifier("Namespace", Foo)>>, SrcStar),
      ImportItem(<<>>, SrcStar),
      ImportItem(<<Specifier("Default", Foo), Specifier("Named", Bar)>>,
                 SrcStar) }

Modules == UNION {[1..n -> Items] : n \in 0..MaxItems}

(***************************************************************************)
(* The transform: glob_importer, then fold_module item by item.            *)
(***************************************************************************)
SanIdle == ident = <<>> /\ sanitized = <<>> /\ san_pc = "idle"

\* glob_importer (lines 183-189) and the call of fold_module on a module
Init ==
    /\ fs \in SUBSET FileNames
    /\ input \in Modules
    /\ pos = 1
    /\ out = <<>>
    /\ id_counter = 0
    /\ allocated = <<>>
    /\ pc = "fold"
    /\ failure = ""
    /\ run = 1
    /\ SanIdle

Folding == pc = "fold" /\ pos <= Len(input)

IsWildcard(item) == item.type = "Import" /\ is_valid_wildcard_import(item)

\* fold_module, the arm `_ => vec![item.clone()]` (line 175)
PassThrough ==
    /\ Folding
    /\ ~IsWildcard(input[pos])
    /\ out' = Append(out, input[pos])
    /\ pos' = pos + 1
    /\ UNCHANGED <<fs, input, id_counter, allocated, pc, failure, run,
                   ident, sanitized, san_pc>>

\* fold_module, the arm that calls split_wildcard_import (lines 170-174)
SplitWildcardImport ==
    /\ Folding
    /\ IsWildcard(input[pos])
    /\ \E r \in {split_wildcard_import(input[pos], id_counter)} :
           /\ r.ok
           /\ out' = out \o r.items
           /\ id_counter' = r.counter
           /\ allocated' = allocated \o r.ids
    /\ pos' = pos + 1
    /\ UNCHANGED <<fs, input, pc, failure, run, ident, sanitized, san_pc>>

\* a panic unwinds fold_module: the items collected so far are dropped and
\* no module is returned
Unwind(r) ==
    /\ pc' = "panic"
    /\ failure' = r.why
    /\ out' = <<>>
    /\ id_counter' = r.counter
    /\ allocated' = allocated \o r.ids
    /\ UNCHANGED <<fs, input, pos, run, ident, sanitized, san_pc>>

\* split_wildcard_import panics on the specifiers (lines 97-98)
UnsupportedSpecifier ==
    /\ Folding
    /\ IsWildcard(input[pos])
    /\ \E r \in {split_wildcard_import(input[pos], id_counter)} :
           ~r.ok /\ r.why \in {"TODO2", "TODO3"} /\ Unwind(r)

\* expand_wildcard panics on re.captures(..).unwrap() (line 61)
CaptureFailure ==
    /\ Folding
    /\ IsWildcard(input[pos])
    /\ \E r \in {split_wildcard_import(input[pos], id_counter)} :
           ~r.ok /\ r.why = "captures" /\ Unwind(r)

\* the collect ends and fold_module returns the module (lines 177-179)
Return ==
    /\ pc = "fold"
    /\ pos > Len(input)
    /\ pc' = "done"
    /\ UNCHANGED <<fs, input, pos, out, id_counter, allocated, failure, run,
                   ident, sanitized, san_pc>>

\* the transform is run again, by a new glob_importer, on the module the
\* first run returned, over the same directory
RunAgain ==
    /\ pc = "done"
    /\ run = 1
    /\ input' = out
    /\ pos' = 1
    /\ out' = <<>>
    /\ id_counter' = 0
    /\ allocated' = <<>>
    /\ pc' = "fold"
    /\ run' = 2
    /\ UNCHANGED <<fs, failure, ident, sanitized, san_pc>>

Next ==
    \/ PassThrough
    \/ SplitWildcardImport
    \/ UnsupportedSpecifier
    \/ CaptureFailure
    \/ Return
    \/ RunAgain

Spec == Init /\ [][Next]_vars

(***************************************************************************)
(* create_valid_property_name on its own: one call on every string up to   *)
(* MaxLen over SanAlphabet, and on the two strings the specification       *)
(* gives as examples.                                                      *)
(***************************************************************************)
SanAlphabet == {"a", "Z", "7", "-", "_", "!"}

\* "foo-bar!!baz"
Example1 == <<"f", "o", "o", "-", "b", "a", "r", "!", "!", "b", "a", "z">>
\* "--a--"
Example2 == <<"-", "-", "a", "-", "-">>

SanInputs ==
    UNION {[1..n -> SanAlphabet] : n \in 0..MaxLen} \cup {Example1, Example2}

SanInit ==
    /\ ident \in SanInputs
    /\ sanitized = <<>>
    /\ san_pc = "call"
    /\ fs = {}
    /\ input = <<>>
    /\ pos = 1
    /\ out = <<>>
    /\ id_counter = 0
    /\ allocated = <<>>
    /\ pc = "idle"
    /\ failure = ""
    /\ run = 1

Sanitize ==
    /\ san_pc = "call"
    /\ sanitized' = create_valid_property_name(ident)
    /\ san_pc' = "done"
    /\ UNCHANGED <<fs, input, pos, out, id_counter, allocated, pc, failure,
                   run, ident>>

SanNext == Sanitize

SanSpec == SanInit /\ [][SanNext]_vars

(***************************************************************************)
(* Vocabulary of the properties.                                           *)
(***************************************************************************)
\* an import whose source string holds exactly one '*'
OneStar(item) == item.type = "Import" /\ CountChar(item.src, "*") = 1

\* an import that carries exactly one specifier, a default one
DefaultOnly(item) ==
    /\ item.type = "Import"
    /\ Len(item.specifiers) = 1
    /\ item.specifiers[1].kind = "Default"

\* the paths the Filesystem Matcher yields for an import's source
MatchesOf(item) == glob(GlobPattern(item.src))

\* the number of items that stand for item in a completed output
SegLen(item) == IF OneStar(item) THEN Len(MatchesOf(item)) + 1 ELSE 1

\* the place in the output where what stands for input[i] starts
RECURSIVE SegStart(_)
SegStart(i) == IF i = 1 THEN 1 ELSE SegStart(i - 1) + SegLen(input[i - 1])

\* the items of input the fold has gone through without a panic
Folded == IF pc = "panic" THEN {} ELSE 1..(pos - 1)

IsDefaultImportItem(item) == item.type = "Import" /\ DefaultOnly(item)

(***************************************************************************)
(* C1.  Every top-level item that is not an import with exactly one '*'    *)
(* is emitted unchanged, at the place the items before it leave for it, so *)
(* these items keep their order; and no panic is ever raised at such an    *)
(* item, an import of "./*-*.js" included, whatever its specifiers.        *)
(***************************************************************************)
C1_FrameUnchanged ==
    /\ \A i \in Folded :
          ~OneStar(input[i]) =>
              /\ SegStart(i) <= Len(out)
              /\ out[SegStart(i)] = input[i]
    /\ pc = "panic" => OneStar(input[pos])

\* a completed run in which a named import of "./*-*.js" follows a wildcard
\* import that was expanded into more than one item
C1_Witness ==
    /\ pc = "done"
    /\ run = 1
    /\ Len(input) = 2
    /\ OneStar(input[1])
    /\ input[2].src = SrcTwoStars
    /\ input[2].specifiers[1].kind = "Named"
    /\ Len(out) >= 3
    /\ out[Len(out)] = input[2]

(***************************************************************************)
(* C2.  Every import with a single default specifier and exactly one '*',  *)
(* whose pattern has N matches, is replaced where it stood by N default    *)
(* imports followed by one const declaration (an empty object for N = 0):  *)
(* so the fold never stops at such an import.                              *)
(***************************************************************************)
C2_ExactReplacement ==
    \A i \in 1..Len(input) :
        (OneStar(input[i]) /\ DefaultOnly(input[i])) =>
            /\ ~(pc = "panic" /\ pos = i)
            /\ i \in Folded =>
                  LET st == SegStart(i)
                      n == Len(MatchesOf(input[i]))
                  IN  /\ Len(out) >= st + n
                      /\ \A k \in 0..(n - 1) : IsDefaultImportItem(out[st + k])
                      /\ out[st + n].type = "Const"
                      /\ Len(out[st + n].props) = n

(***************************************************************************)
(* C3.  In every expansion the const declaration bears the binding name of *)
(* the wildcard import, and its object literal has one property per match, *)
(* in the matcher's order: the k-th key is the sanitized fragment captured *)
(* from the k-th match, the k-th value the synthetic identifier the k-th   *)
(* generated import binds.                                                 *)
(***************************************************************************)
C3_UrlMap ==
    \A i \in Folded :
        OneStar(input[i]) =>
            LET st == SegStart(i)
                paths == MatchesOf(input[i])
                n == Len(paths)
                re == CaptureRegex(input[i].src)
                decl == out[st + n]
            IN  /\ decl.type = "Const"
                /\ decl.name = input[i].specifiers[1].local
                /\ Len(decl.props) = n
                /\ \A k \in 1..n :
                      /\ decl.props[k].key =
                            create_valid_property_name(
                                Captures(re, paths[k]).val)
                      /\ out[st + k - 1].type = "Import"
                      /\ decl.props[k].value =
                            out[st + k - 1].specifiers[1].local
                      /\ StartsWith(decl.props[k].value, ImportPrefix)

\* a completed first run whose output holds a declaration of three
\* properties or more
C3_Witness ==
    /\ pc = "done"
    /\ run = 1
    /\ \E j \in 1..Len(out) : out[j].type = "Const" /\ Len(out[j].props) >= 3

(***************************************************************************)
(* C4.  Within a run the k-th identifier allocated is $_import_k, k from   *)
(* 1, so the identifiers of a run are pairwise distinct, within and across *)
(* expansions; an expansion advances the counter by one per match, and the *)
(* counter never goes down while the run lasts.                            *)
(***************************************************************************)
C4_SyntheticIdentifiers ==
    /\ [](/\ Len(allocated) = id_counter
          /\ \A k \in 1..Len(allocated) :
                allocated[k] = ImportPrefix \o Decimal(k)
          /\ \A k, l \in 1..Len(allocated) :
                k # l => allocated[k] # allocated[l])
    /\ [][/\ run' = run => id_counter' >= id_counter
          /\ (pc' = "fold" /\ pos' = pos + 1 /\ OneStar(input[pos])) =>
                id_counter' = id_counter + Len(MatchesOf(input[pos]))]_vars

\* a completed run of two expansions that allocated ten identifiers
C4_Witness ==
    /\ pc = "done"
    /\ Len(input) = 2
    /\ OneStar(input[1])
    /\ OneStar(input[2])
    /\ Len(MatchesOf(input[1])) >= 1
    /\ Len(MatchesOf(input[2])) >= 1
    /\ id_counter >= 10

(***************************************************************************)
(* C5.  A wildcard import that does not carry exactly one default          *)
(* specifier stops the transform: the fold never gets past it, it ends in  *)
(* the unsupported-specifier panic and no module is produced.              *)
(***************************************************************************)
C5_OnlySingleDefault ==
    \A i \in 1..Len(input) :
        (OneStar(input[i]) /\ ~DefaultOnly(input[i])) =>
            /\ pos <= i
            /\ (pos = i /\ pc # "fold") =>
                  /\ pc = "panic"
                  /\ failure \in {"TODO2", "TODO3"}
                  /\ out = <<>>

(***************************************************************************)
(* C6.  The regex built from a wildcard pattern matches every path the     *)
(* matcher returns for it: the unwrap of the capture never panics.         *)
(***************************************************************************)
C6_CaptureNeverFails == ~(pc = "panic" /\ failure = "captures")

(***************************************************************************)
(* C7.  create_valid_property_name returns what the four steps give in the *)
(* stated order: '-' to '_', delete what is outside [A-Za-z0-9_], collapse *)
(* the runs of '_', trim '_' at both ends.  So the result holds only       *)
(* [A-Za-z0-9_], neither starts nor ends with '_', has no two adjacent     *)
(* '_', and is not empty when the argument holds an ASCII letter or digit. *)
(***************************************************************************)
StepsInStatedOrder(s) ==
    TrimMatches(CollapseRuns(DeleteInvalid(ReplaceChar(s, "-", "_")), "_"), "_")

C7_SanitizerSteps ==
    san_pc = "done" =>
        /\ sanitized = StepsInStatedOrder(ident)
        /\ \A i \in 1..Len(sanitized) : sanitized[i] \in WordChars
        /\ sanitized # <<>> =>
              sanitized[1] # "_" /\ sanitized[Len(sanitized)] # "_"
        /\ \A i \in 1..(Len(sanitized) - 1) :
              ~(sanitized[i] = "_" /\ sanitized[i + 1] = "_")
        /\ (\E i \in 1..Len(ident) : ident[i] \in Lower \cup Upper \cup Digit)
              => sanitized # <<>>

\* a call on "_-!a", where every step has something to do
C7_Witness ==
    /\ san_pc = "done"
    /\ ident = <<"_", "-", "!", "a">>
    /\ sanitized = <<"a">>

(***************************************************************************)
(* C8.  Sanitizing "foo-bar!!baz" yields "foo_barbaz" (the "!!" is         *)
(* deleted, not turned into '_'), and sanitizing "--a--" yields "a".       *)
(***************************************************************************)
C8_Examples ==
    san_pc = "done" =>
        /\ ident = Example1 =>
              sanitized = <<"f", "o", "o", "_", "b", "a", "r", "b", "a", "z">>
        /\ ident = Example2 => sanitized = <<"a">>

\* C8 as the specification states it: "foo-bar!!baz" yields "foo_bar_baz"
C8_ExamplesAsStated ==
    san_pc = "done" =>
        /\ ident = Example1 =>
              sanitized =
                  <<"f", "o", "o", "_", "b", "a", "r", "_", "b", "a", "z">>
        /\ ident = Example2 => sanitized = <<"a">>

\* the call on "foo-bar!!baz" has returned
C8_Witness == san_pc = "done" /\ ident = Example1 /\ sanitized # <<>>

(***************************************************************************)
(* C9.  Idempotence: the output of a run holds no import with exactly one  *)
(* '*', and a second run over the same directory returns it unchanged.     *)
(***************************************************************************)
C9_Idempotent ==
    /\ (run = 1 /\ pc = "done") => \A j \in 1..Len(out) : ~OneStar(out[j])
    /\ (run = 2 /\ pc = "done") => out = input

(***************************************************************************)
(* C10.  The source of every generated import is a relative specifier: it  *)
(* starts with "./" or "../".                                              *)
(***************************************************************************)
C10_RelativeSpecifier ==
    \A i \in Folded :
        OneStar(input[i]) =>
            \A k \in 0..(Len(MatchesOf(input[i])) - 1) :
                \/ StartsWith(out[SegStart(i) + k].src, <<".", "/">>)
                \/ StartsWith(out[SegStart(i) + k].src, <<".", ".", "/">>)

============================================================================
